---------------------------- MODULE Spec2Model ----------------------------
(***************************************************************************)
(* Model of the cw-contract-sample CosmWasm contract (src/src/contract.rs, *)
(* src/src/state.rs, src/src/msg.rs): a configuration item written by      *)
(* instantiate, and a map of withdraw balances credited by                 *)
(* SendCoinsToContract (two half credits) and debited by                   *)
(* WithdrawCoinsFromContract.                                              *)
(*                                                                         *)
(* Each action is one invocation of an entry point.  The handlers are      *)
(* operators that thread the storage through their statements in source    *)
(* order and return the storage as it stands where the handler returns or  *)
(* aborts, together with the result.  The entry point keeps that storage   *)
(* when the handler returns Ok and discards it otherwise (a contract call  *)
(* that errors or aborts commits none of its writes).                      *)
(*                                                                         *)
(* Uint128 is scaled down: values range over 0..MaxUint, where MaxUint     *)
(* stands for 2^128 - 1.  The arithmetic keeps the behaviour of the        *)
(* cosmwasm_std operators at the top and bottom of that range.             *)
(***************************************************************************)
EXTENDS Integers, Sequences, FiniteSets, TLC

\* Largest value of the (scaled down) Uint128.
MaxUint == 3

\* The identities that send messages and receive credits.
Addrs == {"a", "b"}

\* Strings passed as cw20_addr to execute: the token instantiate is given and
\* another one.  The empty string is the one addr_validate rejects.
Cw20Addrs == {"token", "other"}
InstantiateCw20Addrs == {"token"}
InvalidAddrs == {""}

\* env.contract.address, the contract's own address.
ContractAddr == "contract"

Uint128 == 0..MaxUint

\* Option<T>: None is the empty sequence, Some(v) the one-element sequence.
None == <<>>
Some(v) == <<v>>

VARIABLES
    STATE_ITEM,         \* STATE, the Item<State>: None or Some([owner, cw20_addr])
    contract_info,      \* cw2 contract version item: None or Some([contract, version])
    WITHDRAW_BALANCES,  \* Map<&Addr, Uint128>: a function whose domain is the stored keys
    last,               \* the last invocation: its message, its result and the storage before it
    instantiate_msg,    \* the sender and cw20_addr of the instantiate call that succeeded, or None
    credited,           \* history: per identity, the half credits of the send_coins calls that returned Ok
    withdrawn,          \* history: per identity, the amounts of its withdraw_coins calls that returned Ok
    custody,            \* history: amounts of the emitted transfers to the contract minus those from it
    odd_sends,          \* history: the number of send_coins calls with an odd amount that returned Ok
    asset_custody       \* history: custody, per cw20 contract the transfers are addressed to

\* The history variables: written by the actions of the specifications that
\* follow the calls' history, left alone by the others.
history == <<credited, withdrawn, custody, odd_sends, asset_custody>>

vars == <<STATE_ITEM, contract_info, WITHDRAW_BALANCES, last, instantiate_msg, history>>

(***************************************************************************)
(* Uint128 arithmetic and Option/Result helpers of cosmwasm_std.           *)
(***************************************************************************)

\* Option::unwrap_or_default / Result::unwrap_or_default for Uint128.
unwrap_or_default(o) == IF o = None THEN 0 ELSE o[1]

\* A division that rounds up, the fault checked_div is checked against.
checked_div_ceil(a, b) == IF b = 0 THEN None ELSE Some((a + b - 1) \div b)

\* Uint128::checked_div: an error on division by zero, else the floor quotient.
checked_div(a, b) == IF b = 0 THEN None ELSE Some(a \div b)

\* A wrapping addition, the fault the `+` operator is checked against.
Uint128_add_wrapping(a, b) == [panic |-> FALSE, v |-> (a + b) % (MaxUint + 1)]

\* impl Add for Uint128: the `+` operator aborts (panics) on overflow.
Uint128_add(a, b) ==
    IF a + b > MaxUint THEN [panic |-> TRUE, v |-> 0]
    ELSE [panic |-> FALSE, v |-> a + b]

\* A wrapping subtraction, the fault the `-` operator is checked against.
Uint128_sub_wrapping(a, b) == [panic |-> FALSE, v |-> (a - b) % (MaxUint + 1)]

\* impl Sub for Uint128: the `-` operator aborts (panics) on underflow.
Uint128_sub(a, b) ==
    IF a < b THEN [panic |-> TRUE, v |-> 0]
    ELSE [panic |-> FALSE, v |-> a - b]

(***************************************************************************)
(* cw_storage_plus::Map over the storage.                                  *)
(***************************************************************************)

\* Map::may_load: Some(value) for a stored key, None otherwise.
may_load(storage, k) == IF k \in DOMAIN storage THEN Some(storage[k]) ELSE None

\* A save that deletes the entry when the value is zero, the fault save is
\* checked against.
save_drop_zero(storage, k, v) ==
    [x \in IF v = 0 THEN (DOMAIN storage) \ {k} ELSE (DOMAIN storage) \cup {k} |->
        IF x = k THEN v ELSE storage[x]]

\* A save that keeps one value for the whole table, dropping every other key:
\* the fault the keying of the map by address is checked against.
save_single_item(storage, k, v) == [x \in {k} |-> v]

\* Map::save: writes the value under the key, creating the entry if absent.
save(storage, k, v) ==
    [x \in (DOMAIN storage) \cup {k} |-> IF x = k THEN v ELSE storage[x]]

\* The balance read with the default: an absent entry reads as zero.
Balance(storage, k) == unwrap_or_default(may_load(storage, k))

RECURSIVE SumOver(_, _)
SumOver(storage, S) ==
    IF S = {} THEN 0
    ELSE LET k == CHOOSE x \in S : TRUE
         IN storage[k] + SumOver(storage, S \ {k})

\* The sum of all stored balances.
Total(storage) == SumOver(storage, DOMAIN storage)

(***************************************************************************)
(* Messages and responses.                                                 *)
(***************************************************************************)

\* A transfer message with owner and recipient exchanged, the fault
\* TransferFrom is checked against.
TransferFrom_swapped(cw20_addr, owner, recipient, amount) ==
    [contract_addr |-> cw20_addr, owner |-> recipient, recipient |-> owner, amount |-> amount]

\* Cw20ExecuteMsg::TransferFrom wrapped by Cw20Contract::call into a WasmMsg::Execute
\* addressed to the cw20 contract.
TransferFrom(cw20_addr, owner, recipient, amount) ==
    [contract_addr |-> cw20_addr, owner |-> owner, recipient |-> recipient, amount |-> amount]

\* The handler's outcome: res is "Ok", "Err" (an error value returned) or
\* "Abort" (a panic); storage is the storage where the handler stopped.
Outcome(res, err, storage, attributes, messages, data) ==
    [res |-> res, err |-> err, storage |-> storage,
     attributes |-> attributes, messages |-> messages, data |-> data]

(***************************************************************************)
(* The handlers of contract.rs.                                            *)
(***************************************************************************)

\* Api::addr_validate: rejects a malformed address, returns the others unchanged.
addr_validate(s) == IF s \in InvalidAddrs THEN None ELSE Some(s)

\* Cw20Contract::call: builds the message for the cw20 contract, or fails
\* (callOk = FALSE) with the error the `?` propagates.
cw20_call(msg, callOk) == IF callOk THEN Some(msg) ELSE None

\* instantiate: validates cw20_addr, saves the contract version and the state.
instantiate(sender, cw20_addr) ==
    LET validated == addr_validate(cw20_addr)
    IN  IF validated = None
        THEN [res |-> "Err", err |-> "Std", state |-> None, info |-> None,
              attributes |-> <<>>, messages |-> <<>>]
        ELSE [res |-> "Ok", err |-> "",
              state |-> Some([owner |-> sender, cw20_addr |-> validated[1]]),
              info |-> Some([contract |-> "crates.io:cw-contract-sample",
                             version |-> "CARGO_PKG_VERSION"]),
              attributes |-> << <<"method", "instantiate">>, <<"owner", sender>>,
                                <<"cw20_addr", cw20_addr>> >>,
              messages |-> <<>>]

\* The closure of a credit: the stored balance (default zero) plus the split.
credit(withdraw_balance, split_amount) ==
    Uint128_add(unwrap_or_default(withdraw_balance), unwrap_or_default(split_amount))

\* A debit that stores the amount withdrawn instead of the remainder, the
\* fault debit is checked against.
debit_stores_amount(withdraw_balance, amount) == [panic |-> FALSE, v |-> amount]

\* The closure of the debit: the stored balance (default zero) minus the amount.
debit(withdraw_balance, amount) ==
    Uint128_sub(unwrap_or_default(withdraw_balance), amount)

\* send_coins with both credits computed from the storage before the call, so
\* that the second write to the same entry overwrites the first: the fault
\* the sequencing of the two updates is checked against.
send_coins_stale_read(storage, sender, amount, cw20_addr, recipient1, recipient2, callOk) ==
    LET msg == cw20_call(TransferFrom(cw20_addr, sender, ContractAddr, amount), callOk)
        new1 == credit(may_load(storage, recipient1), checked_div(amount, 2))
        new2 == credit(may_load(storage, recipient2), checked_div(amount, 2))
    IN  IF msg = None THEN Outcome("Err", "Std", storage, <<>>, <<>>, None)
        ELSE IF new1.panic THEN Outcome("Abort", "", storage, <<>>, <<>>, None)
        ELSE IF new2.panic
             THEN Outcome("Abort", "", save(storage, recipient1, new1.v), <<>>, <<>>, None)
        ELSE Outcome("Ok", "", save(save(storage, recipient1, new1.v), recipient2, new2.v),
                     << <<"action", "sendCoins">>, <<"from", sender>>,
                        <<"amount", amount>>, <<"recipient1", recipient1>>,
                        <<"recipient1", recipient2>> >>,
                     <<msg[1]>>, None)

\* send_coins with recipient1 credited before the transfer message is built:
\* the fault the order of call and writes is checked against.
send_coins_credit_first(storage, sender, amount, cw20_addr, recipient1, recipient2, callOk) ==
    LET new1 == credit(may_load(storage, recipient1), checked_div(amount, 2))
    IN  IF new1.panic THEN Outcome("Abort", "", storage, <<>>, <<>>, None)
        ELSE
        LET storage1 == save(storage, recipient1, new1.v)
            msg == cw20_call(TransferFrom(cw20_addr, sender, ContractAddr, amount), callOk)
            new2 == credit(may_load(storage1, recipient2), checked_div(amount, 2))
        IN  IF msg = None THEN Outcome("Err", "Std", storage1, <<>>, <<>>, None)
            ELSE IF new2.panic THEN Outcome("Abort", "", storage1, <<>>, <<>>, None)
            ELSE Outcome("Ok", "", save(storage1, recipient2, new2.v),
                         << <<"action", "sendCoins">>, <<"from", sender>>,
                            <<"amount", amount>>, <<"recipient1", recipient1>>,
                            <<"recipient1", recipient2>> >>,
                         <<msg[1]>>, None)

\* send_coins refusing a cw20_addr other than the one in the state, the fault
\* the absence of that comparison is checked against.
send_coins_asset_checked(storage, sender, amount, cw20_addr, recipient1, recipient2, callOk) ==
    IF cw20_addr # STATE_ITEM[1].cw20_addr
    THEN Outcome("Err", "Unauthorized", storage, <<>>, <<>>, None)
    ELSE
    LET msg == cw20_call(TransferFrom(cw20_addr, sender, ContractAddr, amount), callOk)
        new1 == credit(may_load(storage, recipient1), checked_div(amount, 2))
    IN  IF msg = None THEN Outcome("Err", "Std", storage, <<>>, <<>>, None)
        ELSE IF new1.panic THEN Outcome("Abort", "", storage, <<>>, <<>>, None)
        ELSE
        LET storage1 == save(storage, recipient1, new1.v)
            new2 == credit(may_load(storage1, recipient2), checked_div(amount, 2))
        IN  IF new2.panic THEN Outcome("Abort", "", storage1, <<>>, <<>>, None)
            ELSE Outcome("Ok", "", save(storage1, recipient2, new2.v),
                         << <<"action", "sendCoins">>, <<"from", sender>>,
                            <<"amount", amount>>, <<"recipient1", recipient1>>,
                            <<"recipient1", recipient2>> >>,
                         <<msg[1]>>, None)

\* send_coins: builds the transfer message, computes the two halves, then
\* updates recipient1's entry and after it recipient2's entry.
send_coins(storage, sender, amount, cw20_addr, recipient1, recipient2, callOk) ==
    LET msg == cw20_call(TransferFrom(cw20_addr, sender, ContractAddr, amount), callOk)
    IN  IF msg = None THEN Outcome("Err", "Std", storage, <<>>, <<>>, None)
        ELSE
        LET split_amount  == checked_div(amount, 2)
            split_amount2 == checked_div(amount, 2)
            new1 == credit(may_load(storage, recipient1), split_amount)
        IN  IF new1.panic THEN Outcome("Abort", "", storage, <<>>, <<>>, None)
            ELSE
            LET storage1 == save(storage, recipient1, new1.v)
                new2 == credit(may_load(storage1, recipient2), split_amount2)
            IN  IF new2.panic THEN Outcome("Abort", "", storage1, <<>>, <<>>, None)
                ELSE
                Outcome("Ok", "", save(storage1, recipient2, new2.v),
                        << <<"action", "sendCoins">>, <<"from", sender>>,
                           <<"amount", amount>>, <<"recipient1", recipient1>>,
                           <<"recipient1", recipient2>> >>,
                        <<msg[1]>>, None)

\* withdraw_coins with the transfer message built before the balance check:
\* the fault the order of check and call is checked against.
withdraw_coins_call_first(storage, sender, amount, cw20_addr, callOk) ==
    LET withdraw_balance == unwrap_or_default(may_load(storage, sender))
        msg == cw20_call(TransferFrom(cw20_addr, ContractAddr, sender, amount), callOk)
    IN  IF msg = None THEN Outcome("Err", "Std", storage, <<>>, <<>>, None)
        ELSE IF withdraw_balance < amount
        THEN Outcome("Err", "WithdrawAmountExceedsBalance", storage, <<>>, <<>>, None)
        ELSE
        LET new == debit(may_load(storage, sender), amount)
        IN  IF new.panic THEN Outcome("Abort", "", storage, <<>>, <<>>, None)
            ELSE Outcome("Ok", "", save(storage, sender, new.v),
                         << <<"action", "withdrawCoins">>, <<"from", sender>>,
                            <<"amount", amount>> >>,
                         <<msg[1]>>, None)

\* withdraw_coins without the balance check, the debit alone standing between
\* the request and the entry: the fault the check is checked against.
withdraw_coins_unchecked(storage, sender, amount, cw20_addr, callOk) ==
    LET msg == cw20_call(TransferFrom(cw20_addr, ContractAddr, sender, amount), callOk)
    IN  IF msg = None THEN Outcome("Err", "Std", storage, <<>>, <<>>, None)
        ELSE
        LET new == debit(may_load(storage, sender), amount)
        IN  IF new.panic THEN Outcome("Abort", "", storage, <<>>, <<>>, None)
            ELSE Outcome("Ok", "", save(storage, sender, new.v),
                         << <<"action", "withdrawCoins">>, <<"from", sender>>,
                            <<"amount", amount>> >>,
                         <<msg[1]>>, None)

\* withdraw_coins: rejects an amount above the sender's balance, builds the
\* transfer message, then updates the sender's entry.
withdraw_coins(storage, sender, amount, cw20_addr, callOk) ==
    LET withdraw_balance == unwrap_or_default(may_load(storage, sender))
    IN  IF withdraw_balance < amount
        THEN Outcome("Err", "WithdrawAmountExceedsBalance", storage, <<>>, <<>>, None)
        ELSE
        LET msg == cw20_call(TransferFrom(cw20_addr, ContractAddr, sender, amount), callOk)
        IN  IF msg = None THEN Outcome("Err", "Std", storage, <<>>, <<>>, None)
            ELSE
            LET new == debit(may_load(storage, sender), amount)
            IN  IF new.panic THEN Outcome("Abort", "", storage, <<>>, <<>>, None)
                ELSE
                Outcome("Ok", "", save(storage, sender, new.v),
                        << <<"action", "withdrawCoins">>, <<"from", sender>>,
                           <<"amount", amount>> >>,
                        <<msg[1]>>, None)

\* query_owner: the stored owner, or NotFound when the state was never saved.
query_owner(state) ==
    IF state = None THEN [res |-> "Err", err |-> "NotFound", data |-> None]
    ELSE [res |-> "Ok", err |-> "", data |-> Some(state[1].owner)]

\* query_cw20_addr answering with the owner field, the fault it is checked against.
query_cw20_addr_returns_owner(state) ==
    IF state = None THEN [res |-> "Err", err |-> "NotFound", data |-> None]
    ELSE [res |-> "Ok", err |-> "", data |-> Some(state[1].owner)]

\* query_cw20_addr: the stored cw20 address, or NotFound.
query_cw20_addr(state) ==
    IF state = None THEN [res |-> "Err", err |-> "NotFound", data |-> None]
    ELSE [res |-> "Ok", err |-> "", data |-> Some(state[1].cw20_addr)]

\* query_withdraw_balance propagating the load error of an absent entry
\* instead of defaulting it, the fault the default is checked against.
query_withdraw_balance_load(storage, recipient) ==
    IF recipient \in DOMAIN storage
    THEN [res |-> "Ok", err |-> "", data |-> Some(storage[recipient])]
    ELSE [res |-> "Err", err |-> "NotFound", data |-> None]

\* query_withdraw_balance: the stored balance, zero when there is no entry.
query_withdraw_balance(storage, recipient) ==
    LET withdraw_balance == may_load(storage, recipient)
    IN  [res |-> "Ok", err |-> "", data |-> Some(unwrap_or_default(withdraw_balance))]

(***************************************************************************)
(* The state machine: one action per entry point invocation.               *)
(***************************************************************************)

\* The record of an invocation: the message, the storage before it (pre,
\* preState), the handler's own storage where it stopped (work) and the result.
Invocation(op, sender, amount, cw20_addr, recipient1, recipient2, callOk, pre, preState, work, res, err, attributes, messages, data) ==
    [op |-> op, sender |-> sender, amount |-> amount, cw20_addr |-> cw20_addr,
     recipient1 |-> recipient1, recipient2 |-> recipient2, callOk |-> callOk,
     pre |-> pre, preState |-> preState, work |-> work,
     res |-> res, err |-> err, attributes |-> attributes,
     messages |-> messages, data |-> data]

Init ==
    /\ STATE_ITEM = None
    /\ contract_info = None
    /\ WITHDRAW_BALANCES = <<>>
    /\ instantiate_msg = None
    /\ credited = [k \in Addrs |-> 0]
    /\ withdrawn = [k \in Addrs |-> 0]
    /\ custody = 0
    /\ odd_sends = 0
    /\ asset_custody = [a \in Cw20Addrs |-> 0]
    /\ last = Invocation("none", "", 0, "", "", "", TRUE, <<>>, None, <<>>,
                         "Ok", "", <<>>, <<>>, None)

\* The instantiate entry point, run once per contract: it runs while the
\* contract has no state yet.
Instantiate ==
    /\ STATE_ITEM = None
    /\ \E sender \in Addrs, cw20_addr \in InstantiateCw20Addrs \cup InvalidAddrs :
         \E r \in {instantiate(sender, cw20_addr)} :
             /\ STATE_ITEM' = IF r.res = "Ok" THEN r.state ELSE STATE_ITEM
             /\ contract_info' = IF r.res = "Ok" THEN r.info ELSE contract_info
             /\ instantiate_msg' = IF r.res = "Ok"
                                   THEN Some([sender |-> sender, cw20_addr |-> cw20_addr])
                                   ELSE instantiate_msg
             /\ last' = Invocation("instantiate", sender, 0, cw20_addr, "", "", TRUE,
                                   WITHDRAW_BALANCES, STATE_ITEM, WITHDRAW_BALANCES,
                                   r.res, r.err, r.attributes, r.messages, None)
    /\ UNCHANGED <<WITHDRAW_BALANCES, history>>

\* The storage an execute call leaves: the handler's writes when it returned
\* Ok, the storage before the call when it returned an error or aborted.
Committed(storage, r) == IF r.res = "Ok" THEN r.storage ELSE storage

\* execute, ExecuteMsg::SendCoinsToContract, with the cw20_addr of the message
\* drawn from cw20_addrs and the outcome of Cw20Contract::call from callOks.
SendCoins(cw20_addrs, callOks) ==
    /\ STATE_ITEM # None
    /\ \E sender \in Addrs, amount \in Uint128, cw20_addr \in cw20_addrs,
          recipient1 \in Addrs, recipient2 \in Addrs, callOk \in callOks :
         \E r \in {send_coins(WITHDRAW_BALANCES, sender, amount, cw20_addr,
                             recipient1, recipient2, callOk)} :
             /\ WITHDRAW_BALANCES' = Committed(WITHDRAW_BALANCES, r)
             /\ last' = Invocation("send_coins", sender, amount, cw20_addr,
                                   recipient1, recipient2, callOk,
                                   WITHDRAW_BALANCES, STATE_ITEM, r.storage,
                                   r.res, r.err, r.attributes, r.messages, None)
    /\ UNCHANGED <<STATE_ITEM, contract_info, instantiate_msg>>

\* execute, ExecuteMsg::SendCoinsToContract.
SendCoinsToContract == SendCoins(Cw20Addrs, BOOLEAN) /\ UNCHANGED history

\* execute, ExecuteMsg::WithdrawCoinsFromContract, with the cw20_addr of the
\* message drawn from cw20_addrs and the outcome of Cw20Contract::call from callOks.
WithdrawCoins(cw20_addrs, callOks) ==
    /\ STATE_ITEM # None
    /\ \E sender \in Addrs, amount \in Uint128, cw20_addr \in cw20_addrs,
          callOk \in callOks :
         \E r \in {withdraw_coins(WITHDRAW_BALANCES, sender, amount, cw20_addr, callOk)} :
             /\ WITHDRAW_BALANCES' = Committed(WITHDRAW_BALANCES, r)
             /\ last' = Invocation("withdraw_coins", sender, amount, cw20_addr,
                                   "", "", callOk,
                                   WITHDRAW_BALANCES, STATE_ITEM, r.storage,
                                   r.res, r.err, r.attributes, r.messages, None)
    /\ UNCHANGED <<STATE_ITEM, contract_info, instantiate_msg>>

\* execute, ExecuteMsg::WithdrawCoinsFromContract.
WithdrawCoinsFromContract == WithdrawCoins(Cw20Addrs, BOOLEAN) /\ UNCHANGED history

\* query, QueryMsg::GetOwner.
GetOwner ==
    /\ \E r \in {query_owner(STATE_ITEM)} :
           last' = Invocation("query_owner", "", 0, "", "", "", TRUE,
                              WITHDRAW_BALANCES, STATE_ITEM, WITHDRAW_BALANCES,
                              r.res, r.err, <<>>, <<>>, r.data)
    /\ UNCHANGED <<STATE_ITEM, contract_info, WITHDRAW_BALANCES, instantiate_msg, history>>

\* query, QueryMsg::GetCw20Address.
GetCw20Address ==
    /\ \E r \in {query_cw20_addr(STATE_ITEM)} :
           last' = Invocation("query_cw20_addr", "", 0, "", "", "", TRUE,
                              WITHDRAW_BALANCES, STATE_ITEM, WITHDRAW_BALANCES,
                              r.res, r.err, <<>>, <<>>, r.data)
    /\ UNCHANGED <<STATE_ITEM, contract_info, WITHDRAW_BALANCES, instantiate_msg, history>>

\* query, QueryMsg::GetWithdrawBalance.
GetWithdrawBalance ==
    /\ \E recipient \in Addrs :
         \E r \in {query_withdraw_balance(WITHDRAW_BALANCES, recipient)} :
             last' = Invocation("query_withdraw_balance", "", 0, "", recipient, "", TRUE,
                                WITHDRAW_BALANCES, STATE_ITEM, WITHDRAW_BALANCES,
                                r.res, r.err, <<>>, <<>>, r.data)
    /\ UNCHANGED <<STATE_ITEM, contract_info, WITHDRAW_BALANCES, instantiate_msg, history>>

Next ==
    \/ Instantiate
    \/ SendCoinsToContract
    \/ WithdrawCoinsFromContract
    \/ GetOwner
    \/ GetCw20Address
    \/ GetWithdrawBalance

Spec == Init /\ [][Next]_vars

(***************************************************************************)
(* Specifications that follow the history of the calls.  Their execute     *)
(* actions are the ones above, over narrower inputs, and also update       *)
(* history variables from the invocation just made (last').  A cap on a    *)
(* history variable disables the calls that would take it further.         *)
(***************************************************************************)

\* Cap on the half credits counted per identity.
MaxCredited == 4

\* Cap on the send_coins calls with an odd amount that are counted.
MaxOddSends == 2

\* Cap on the custody counted per cw20 contract, above and below zero.
MaxAssetCustody == 3

\* The half credits a successful send_coins call makes to identity k.
HalfCredits(inv, k) ==
    IF inv.op = "send_coins" /\ inv.res = "Ok"
    THEN (IF k = inv.recipient1 THEN inv.amount \div 2 ELSE 0)
         + (IF k = inv.recipient2 THEN inv.amount \div 2 ELSE 0)
    ELSE 0

\* The amount a successful withdraw_coins call withdraws for identity k.
Withdrawal(inv, k) ==
    IF inv.op = "withdraw_coins" /\ inv.res = "Ok" /\ k = inv.sender THEN inv.amount ELSE 0

RECURSIVE NetInflow(_, _)
\* What the emitted messages addressed to the cw20 contracts in `assets` move
\* to the contract's address, minus what they move from it.
NetInflow(messages, assets) ==
    IF messages = <<>> THEN 0
    ELSE LET m == Head(messages)
         IN  (IF m.contract_addr \in assets
              THEN (IF m.recipient = ContractAddr THEN m.amount ELSE 0)
                   - (IF m.owner = ContractAddr THEN m.amount ELSE 0)
              ELSE 0)
             + NetInflow(Tail(messages), assets)

\* The per-identity ledger history after the invocation just made.
LedgerHistory ==
    /\ credited' = [k \in Addrs |-> credited[k] + HalfCredits(last', k)]
    /\ withdrawn' = [k \in Addrs |-> withdrawn[k] + Withdrawal(last', k)]
    /\ \A k \in Addrs : credited'[k] <= MaxCredited
    /\ UNCHANGED <<custody, odd_sends, asset_custody>>

LedgerSendCoins == SendCoins(InstantiateCw20Addrs, BOOLEAN) /\ LedgerHistory

LedgerWithdrawCoins == WithdrawCoins(InstantiateCw20Addrs, BOOLEAN) /\ LedgerHistory

NextLedger ==
    \/ Instantiate
    \/ LedgerSendCoins
    \/ LedgerWithdrawCoins

SpecLedger == Init /\ [][NextLedger]_vars

\* The custody history after the invocation just made.
CustodyHistory ==
    /\ custody' = custody + NetInflow(last'.messages, Cw20Addrs)
    /\ odd_sends' = odd_sends
          + (IF last'.op = "send_coins" /\ last'.res = "Ok" /\ last'.amount % 2 = 1
             THEN 1 ELSE 0)
    /\ odd_sends' <= MaxOddSends
    /\ UNCHANGED <<credited, withdrawn, asset_custody>>

CustodySendCoins == SendCoins(Cw20Addrs, {TRUE}) /\ CustodyHistory

CustodyWithdrawCoins == WithdrawCoins(Cw20Addrs, {TRUE}) /\ CustodyHistory

NextCustody ==
    \/ Instantiate
    \/ CustodySendCoins
    \/ CustodyWithdrawCoins

SpecCustody == Init /\ [][NextCustody]_vars

\* The per-asset custody history after the invocation just made.
AssetHistory ==
    /\ asset_custody' = [a \in Cw20Addrs |->
                            asset_custody[a] + NetInflow(last'.messages, {a})]
    /\ \A a \in Cw20Addrs :
          asset_custody'[a] <= MaxAssetCustody /\ asset_custody'[a] >= -MaxAssetCustody
    /\ UNCHANGED <<credited, withdrawn, custody, odd_sends>>

AssetSendCoins == SendCoins(Cw20Addrs, {TRUE}) /\ AssetHistory

AssetWithdrawCoins == WithdrawCoins(Cw20Addrs, {TRUE}) /\ AssetHistory

NextAssets ==
    \/ Instantiate
    \/ AssetSendCoins
    \/ AssetWithdrawCoins

SpecAssets == Init /\ [][NextAssets]_vars

\* The shape of every reachable state.
TypeOK ==
    /\ STATE_ITEM = None \/ (STATE_ITEM[1].owner \in Addrs /\ STATE_ITEM[1].cw20_addr \in Cw20Addrs)
    /\ DOMAIN WITHDRAW_BALANCES \subseteq Addrs
    /\ last.res \in {"Ok", "Err", "Abort"}

(***************************************************************************)
(* Properties.  `last` is the invocation that produced the current state:  *)
(* last.pre is the storage before it, WITHDRAW_BALANCES the storage after. *)
(***************************************************************************)

SendOk == last.op = "send_coins" /\ last.res = "Ok"
WithdrawOk == last.op = "withdraw_coins" /\ last.res = "Ok"
Half(amount) == amount \div 2

\* C1: a successful send_coins to two distinct recipients raises each
\* recipient's balance by floor(amount/2), and the sum of all balances by
\* 2*floor(amount/2): by amount when amount is even, by amount-1 when odd.
C1_SplitDistinct ==
    (SendOk /\ last.recipient1 # last.recipient2) =>
        /\ Balance(WITHDRAW_BALANCES, last.recipient1)
             = Balance(last.pre, last.recipient1) + Half(last.amount)
        /\ Balance(WITHDRAW_BALANCES, last.recipient2)
             = Balance(last.pre, last.recipient2) + Half(last.amount)
        /\ Total(WITHDRAW_BALANCES) = Total(last.pre) + 2 * Half(last.amount)
        /\ last.amount % 2 = 0 => Total(WITHDRAW_BALANCES) = Total(last.pre) + last.amount
        /\ last.amount % 2 = 1 => Total(WITHDRAW_BALANCES) = Total(last.pre) + last.amount - 1

\* An odd amount of at least 3 was split between two distinct recipients, one
\* of which already had a balance.
C1_Witness ==
    /\ SendOk
    /\ last.recipient1 # last.recipient2
    /\ last.amount % 2 = 1
    /\ last.amount >= 3
    /\ Balance(last.pre, last.recipient1) > 0

\* C2: a withdrawal of more than the sender's balance (an absent entry counting
\* as zero) fails with WithdrawAmountExceedsBalance, whether or not the
\* transfer message could be built, and leaves the balances and the
\* configuration as they were, writes nothing and emits no message.
C2_WithdrawRejected ==
    (last.op = "withdraw_coins" /\ last.amount > Balance(last.pre, last.sender)) =>
        /\ last.res = "Err"
        /\ last.err = "WithdrawAmountExceedsBalance"
        /\ WITHDRAW_BALANCES = last.pre
        /\ last.work = last.pre
        /\ STATE_ITEM = last.preState
        /\ last.messages = <<>>

\* A sender with a stored non-zero balance asked for more than it, in a call
\* whose transfer message could not have been built.
C2_Witness ==
    /\ last.op = "withdraw_coins"
    /\ last.sender \in DOMAIN last.pre
    /\ last.pre[last.sender] > 0
    /\ last.amount > last.pre[last.sender]
    /\ ~last.callOk

\* C3: a withdrawal of at most the sender's balance succeeds when the transfer
\* message is built, and leaves the sender's balance at the previous balance
\* minus the amount, which is not below zero.
C3_WithdrawDebits ==
    (last.op = "withdraw_coins" /\ last.callOk
        /\ last.amount <= Balance(last.pre, last.sender)) =>
        /\ last.res = "Ok"
        /\ Balance(WITHDRAW_BALANCES, last.sender)
             = Balance(last.pre, last.sender) - last.amount
        /\ Balance(WITHDRAW_BALANCES, last.sender) >= 0

\* Part of a balance was withdrawn: the amount is neither zero nor the whole.
C3_Witness ==
    /\ WithdrawOk
    /\ last.amount > 0
    /\ last.amount < Balance(last.pre, last.sender)
    /\ Balance(WITHDRAW_BALANCES, last.sender) > 0

\* C4: every stored balance is within 0..MaxUint, and a withdrawal that would
\* take the sender's balance below zero is rejected with an error before the
\* handler writes anything.
C4_BalancesInRange ==
    /\ \A k \in DOMAIN WITHDRAW_BALANCES :
          WITHDRAW_BALANCES[k] >= 0 /\ WITHDRAW_BALANCES[k] <= MaxUint
    /\ \A k \in DOMAIN last.work : last.work[k] >= 0 /\ last.work[k] <= MaxUint
    /\ (last.op = "withdraw_coins" /\ Balance(last.pre, last.sender) - last.amount < 0) =>
          /\ last.res = "Err"
          /\ last.work = last.pre
          /\ WITHDRAW_BALANCES = last.pre

\* A withdrawal was rejected while some entry stood at the top of the range.
C4_Witness ==
    /\ last.op = "withdraw_coins"
    /\ last.err = "WithdrawAmountExceedsBalance"
    /\ \E k \in DOMAIN WITHDRAW_BALANCES : WITHDRAW_BALANCES[k] = MaxUint

\* C5: a successful send_coins whose two recipients are the same identity
\* raises that identity's balance by 2*floor(amount/2).
C5_SplitSame ==
    (SendOk /\ last.recipient1 = last.recipient2) =>
        Balance(WITHDRAW_BALANCES, last.recipient1)
          = Balance(last.pre, last.recipient1) + 2 * Half(last.amount)

\* Both halves of an amount of at least 2 went to one identity that already
\* had a balance.
C5_Witness ==
    /\ SendOk
    /\ last.recipient1 = last.recipient2
    /\ last.amount >= 2
    /\ Balance(last.pre, last.recipient1) > 0

\* C6: once instantiate has succeeded for sender O and cw20_addr X, the stored
\* state is (O, X) in every later state, no execute or query changes it, and
\* GetOwner and GetCw20Address answer O and X.
C6_ConfigImmutable ==
    instantiate_msg # None =>
        /\ STATE_ITEM = Some([owner |-> instantiate_msg[1].sender,
                              cw20_addr |-> instantiate_msg[1].cw20_addr])
        /\ last.op # "instantiate" => last.preState = STATE_ITEM
        /\ last.op = "query_owner" =>
              last.res = "Ok" /\ last.data = Some(instantiate_msg[1].sender)
        /\ last.op = "query_cw20_addr" =>
              last.res = "Ok" /\ last.data = Some(instantiate_msg[1].cw20_addr)

\* The cw20 address was queried after credits had been made.
C6_Witness ==
    /\ instantiate_msg # None
    /\ last.op = "query_cw20_addr"
    /\ Total(WITHDRAW_BALANCES) > 0

\* C7: GetWithdrawBalance never fails: it answers zero for an identity with no
\* entry and the stored amount otherwise, and changes nothing.
C7_BalanceQuery ==
    last.op = "query_withdraw_balance" =>
        /\ last.res = "Ok"
        /\ last.recipient1 \notin DOMAIN last.pre => last.data = Some(0)
        /\ last.recipient1 \in DOMAIN last.pre => last.data = Some(last.pre[last.recipient1])
        /\ WITHDRAW_BALANCES = last.pre
        /\ STATE_ITEM = last.preState

\* The balance of an identity with no entry was queried while another
\* identity had one.
C7_Witness ==
    /\ last.op = "query_withdraw_balance"
    /\ last.recipient1 \notin DOMAIN WITHDRAW_BALANCES
    /\ DOMAIN WITHDRAW_BALANCES # {}

\* C8: in every step, the sum of the balances rises only in a successful
\* send_coins and falls only in a successful withdraw_coins, every query and
\* every failed call leaves it as it was, and no stored entry is removed.
C8_TotalMonotone ==
    [][ /\ Total(WITHDRAW_BALANCES') > Total(WITHDRAW_BALANCES) =>
              (last'.op = "send_coins" /\ last'.res = "Ok")
        /\ Total(WITHDRAW_BALANCES') < Total(WITHDRAW_BALANCES) =>
              (last'.op = "withdraw_coins" /\ last'.res = "Ok")
        /\ (last'.res # "Ok" \/ last'.op \notin {"send_coins", "withdraw_coins"}) =>
              Total(WITHDRAW_BALANCES') = Total(WITHDRAW_BALANCES)
        /\ DOMAIN WITHDRAW_BALANCES \subseteq DOMAIN WITHDRAW_BALANCES'
      ]_vars

\* A whole balance was withdrawn and its entry is still stored, as zero.
C8_Witness ==
    /\ WithdrawOk
    /\ last.amount > 0
    /\ last.sender \in DOMAIN WITHDRAW_BALANCES
    /\ WITHDRAW_BALANCES[last.sender] = 0

\* C9: when the transfer message cannot be built the call fails with an error,
\* the handler has written nothing, the balances are as before and no message
\* is emitted; the handler writes only after the message was built.
C9_TransferFailure ==
    /\ (last.op \in {"send_coins", "withdraw_coins"} /\ ~last.callOk) =>
          /\ last.res = "Err"
          /\ last.work = last.pre
          /\ WITHDRAW_BALANCES = last.pre
          /\ last.messages = <<>>
    /\ last.work # last.pre => last.callOk

\* A send_coins that would have credited both recipients failed to build its
\* transfer message.
C9_Witness ==
    /\ last.op = "send_coins"
    /\ ~last.callOk
    /\ last.amount >= 2
    /\ Balance(last.pre, last.recipient1) + Half(last.amount) <= MaxUint
    /\ Total(last.pre) > 0

\* A credit of send_coins goes above MaxUint: the first to recipient1, or the
\* second to recipient2 (to the entry as the first left it).
CreditOverflows ==
    /\ last.op = "send_coins"
    /\ last.callOk
    /\ \/ Balance(last.pre, last.recipient1) + Half(last.amount) > MaxUint
       \/ Balance(last.pre, last.recipient2) + Half(last.amount)
            + (IF last.recipient1 = last.recipient2 THEN Half(last.amount) ELSE 0) > MaxUint

\* C10: a send_coins with a credit that goes above the top of the range
\* returns an error value, without aborting, and leaves the balances of both
\* recipients as they were.
C10_OverflowIsError ==
    CreditOverflows =>
        /\ last.res = "Err"
        /\ Balance(WITHDRAW_BALANCES, last.recipient1) = Balance(last.pre, last.recipient1)
        /\ Balance(WITHDRAW_BALANCES, last.recipient2) = Balance(last.pre, last.recipient2)

\* The message of a transfer of `amount` of token `cw20_addr` from `owner` to
\* `recipient`, as the cw20 contract receives it.
Transfer(cw20_addr, owner, recipient, amount) ==
    [contract_addr |-> cw20_addr, owner |-> owner, recipient |-> recipient, amount |-> amount]

\* C11: a successful send_coins emits exactly one transfer message, of the
\* full amount, from the caller to the contract's own address; a successful
\* withdraw_coins emits exactly one, of the amount, from the contract's own
\* address to the caller; a call that fails emits none.
C11_OneTransfer ==
    /\ SendOk =>
          last.messages = <<Transfer(last.cw20_addr, last.sender, ContractAddr, last.amount)>>
    /\ WithdrawOk =>
          last.messages = <<Transfer(last.cw20_addr, ContractAddr, last.sender, last.amount)>>
    /\ last.res # "Ok" => last.messages = <<>>

\* An odd amount of at least 3 was sent, so that the amount transferred is
\* more than the two credits together.
C11_Witness ==
    /\ SendOk
    /\ last.amount % 2 = 1
    /\ last.amount >= 3
    /\ last.amount > 2 * Half(last.amount)
    /\ Len(last.messages) = 1

\* C13: a withdraw_coins changes no entry but its sender's, a send_coins no
\* entry but those of recipient1 and recipient2; no call lowers the balance of
\* an identity other than its sender; and after a withdrawal by X, every
\* withdrawal another identity Y could request has the outcome it would have
\* had before it.
C13_Independent ==
    /\ last.op = "withdraw_coins" =>
          \A k \in Addrs \ {last.sender} :
              may_load(WITHDRAW_BALANCES, k) = may_load(last.pre, k)
    /\ last.op = "send_coins" =>
          \A k \in Addrs \ {last.recipient1, last.recipient2} :
              may_load(WITHDRAW_BALANCES, k) = may_load(last.pre, k)
    /\ \A k \in Addrs \ {last.sender} :
          Balance(WITHDRAW_BALANCES, k) >= Balance(last.pre, k)
    /\ last.op = "withdraw_coins" =>
          \A y \in Addrs \ {last.sender}, amount \in Uint128 :
              LET before == withdraw_coins(last.pre, y, amount, last.cw20_addr, TRUE)
                  after  == withdraw_coins(WITHDRAW_BALANCES, y, amount, last.cw20_addr, TRUE)
              IN  /\ before.res = after.res
                  /\ before.err = after.err
                  /\ Balance(before.storage, y) = Balance(after.storage, y)

\* An identity with a balance withdrew part of it while another identity had
\* a balance too.
C13_Witness ==
    /\ WithdrawOk
    /\ last.amount > 0
    /\ \E y \in Addrs \ {last.sender} : Balance(last.pre, y) > 0

\* C14: the cw20_addr of a send_coins or withdraw_coins call does not decide
\* its outcome: the same call with any other cw20_addr, the approved one or
\* not, has the same result, the same error and the same effect on the
\* balances, and emits the same message but for the contract it is addressed to.
C14_AssetNotChecked ==
    \A other \in Cw20Addrs :
        /\ last.op = "send_coins" =>
              \E r \in {send_coins(last.pre, last.sender, last.amount, other,
                                   last.recipient1, last.recipient2, last.callOk)} :
                  /\ r.res = last.res
                  /\ r.err = last.err
                  /\ r.storage = last.work
                  /\ Committed(last.pre, r) = WITHDRAW_BALANCES
                  /\ Len(r.messages) = Len(last.messages)
                  /\ \A i \in 1..Len(r.messages) :
                        r.messages[i] = [last.messages[i] EXCEPT !.contract_addr = other]
        /\ last.op = "withdraw_coins" =>
              \E r \in {withdraw_coins(last.pre, last.sender, last.amount, other,
                                       last.callOk)} :
                  /\ r.res = last.res
                  /\ r.err = last.err
                  /\ r.storage = last.work
                  /\ Committed(last.pre, r) = WITHDRAW_BALANCES
                  /\ Len(r.messages) = Len(last.messages)
                  /\ \A i \in 1..Len(r.messages) :
                        r.messages[i] = [last.messages[i] EXCEPT !.contract_addr = other]

\* A send_coins naming a cw20_addr other than the one in the state succeeded
\* and credited its recipients.
C14_Witness ==
    /\ SendOk
    /\ last.cw20_addr # STATE_ITEM[1].cw20_addr
    /\ last.amount >= 2
    /\ Total(WITHDRAW_BALANCES) > Total(last.pre)

\* The values the attributes of the last response hold under a key.
AttributeValues(key) ==
    {last.attributes[i][2] : i \in {j \in 1..Len(last.attributes) : last.attributes[j][1] = key}}

\* C17: the response of a successful send_coins records the action, the
\* sender, the amount and both recipients, recipient1 under the key
\* "recipient1" and recipient2 under the key "recipient2".
C17_EventRecordsRecipients ==
    SendOk =>
        /\ AttributeValues("action") = {"sendCoins"}
        /\ AttributeValues("from") = {last.sender}
        /\ AttributeValues("amount") = {last.amount}
        /\ AttributeValues("recipient1") = {last.recipient1}
        /\ AttributeValues("recipient2") = {last.recipient2}

\* C12: under SpecLedger, every identity's balance is the sum of the half
\* credits made to it by successful send_coins calls minus the sum of the
\* amounts of its successful withdraw_coins calls, so that what it has
\* withdrawn never exceeds what it was credited.
C12_BalanceIsCreditsMinusWithdrawals ==
    \A k \in Addrs :
        /\ Balance(WITHDRAW_BALANCES, k) = credited[k] - withdrawn[k]
        /\ withdrawn[k] <= credited[k]

\* An identity was credited, withdrew part, was credited again and withdrew
\* again, and still has a balance.
C12_Witness ==
    /\ WithdrawOk
    /\ last.amount > 0
    /\ withdrawn[last.sender] > last.amount
    /\ credited[last.sender] > MaxUint
    /\ Balance(WITHDRAW_BALANCES, last.sender) > 0

\* C15: under SpecCustody, the sum of the balances is at most the custody (the
\* amounts of the emitted transfers to the contract minus those from it), the
\* difference is the number of successful send_coins calls with an odd
\* amount, and no step lowers the difference.
C15_AggregateSolvency ==
    /\ [](/\ Total(WITHDRAW_BALANCES) <= custody
          /\ custody - Total(WITHDRAW_BALANCES) = odd_sends)
    /\ [][custody' - Total(WITHDRAW_BALANCES') >= custody - Total(WITHDRAW_BALANCES)]_vars

\* After two odd sends, every balance was withdrawn and two units stay in custody.
C15_Witness ==
    /\ WithdrawOk
    /\ last.amount > 0
    /\ odd_sends = 2
    /\ Total(WITHDRAW_BALANCES) = 0
    /\ custody = 2

\* C16: under SpecAssets, for every cw20 contract, the amounts of the emitted
\* transfers from the contract's address never exceed the amounts of the
\* emitted transfers to it.
C16_PerAssetSolvency ==
    \A a \in Cw20Addrs : asset_custody[a] >= 0

=============================================================================
